---- MODULE Spec2Model ----
(***************************************************************************)
(* Model of ccache's util/file.cpp: the file I/O primitives copy_file,     *)
(* write_file, read_file, read_file_part, rename, fallocate, write_fd and  *)
(* read_fd, run against a small POSIX file system (directory entries,      *)
(* descriptors that keep an unlinked file alive, system calls that may     *)
(* transfer fewer bytes than asked, be interrupted, or fail).              *)
(* One caller runs one call at a time; each system call is one step.  A    *)
(* second process, the reader, may open a path between any two steps.      *)
(***************************************************************************)
EXTENDS Integers, Sequences, FiniteSets, TLC

\* ---------------------------------------------------------------- bounds
MaxLen == 2                    \* longest file content / data argument
CCACHE_READ_BUFFER_SIZE == 2   \* build-time chunk size of read_fd

Byte == {0, 1}
SizeHints == {0, 1, 1024}      \* size_hint arguments tried
SIZE_BITS == 13                \* width of size_t in the model
SIZE_MAX == 2^SIZE_BITS - 1
\* file sizes around read_file's least buffer and its doublings, and the
\* size_hint arguments tried with them
BigSizes == {0, 1000, 1023, 1024, 1025, 2047, 2048, 2500}
BigHints == {0, 1, 1000, 1023, 1024, 1025, 2500, 4000, SIZE_MAX - 1, SIZE_MAX}
UserPaths == {"a", "b"}
TmpNames == <<"t1", "t2">>     \* names mkstemp can still hand out
TmpPaths == {TmpNames[i] : i \in 1..Len(TmpNames)}
Paths == UserPaths \cup TmpPaths
ReadOnlyOps == {"read_file", "read_file_part", "read_fd"}
LocalFds == {"src_fd", "dest_fd", "fd"}
FdNames == LocalFds \cup {"user", "reader"}

Min(x, y) == IF x < y THEN x ELSE y
Max(x, y) == IF x > y THEN x ELSE y

RECURSIVE SeqsUpTo(_)
SeqsUpTo(n) ==
  IF n = 0 THEN {<<>>}
  ELSE LET S == SeqsUpTo(n - 1)
       IN  S \cup {Append(s, b) : s \in {t \in S : Len(t) = n - 1}, b \in Byte}
Contents == SeqsUpTo(MaxLen)

Zeros(n) == [i \in 1..n |-> 0]
IsPrefix(p, s) == Len(p) <= Len(s) /\ SubSeq(s, 1, Len(p)) = p
IsStrictPrefix(p, s) == IsPrefix(p, s) /\ Len(p) < Len(s)

\* ----------------------------------------------------------- file system
NoFile == [exists |-> FALSE, data |-> <<>>]
File(d) == [exists |-> TRUE, data |-> d]
ClosedFd == [st |-> "closed", path |-> "", data |-> <<>>, pos |-> 0]
LinkedFd(p) == [st |-> "linked", path |-> p, data |-> <<>>, pos |-> 0]

VARIABLES
  fs,      \* directory: path -> file (present or not, and its bytes)
  fdt,     \* descriptors: the callee's locals, the caller's fd, the reader's
  pc,      \* position of the running call; "done" when it has returned,
           \* "idle" before the next one
  arg,     \* arguments of the running (or last) call
  loc,     \* local variables of the running call
  ret,     \* value returned by the last call
  ev,      \* system-call failures the running (or last) call met
  pre,     \* directory when the running (or last) call started
  robs,    \* the reader's open: when it happened, on which path, its outcome
  prev,    \* the write_file call the caller is reading back, if any
  ncalls   \* calls started so far that change files

vars == <<fs, fdt, pc, arg, loc, ret, ev, pre, robs, prev, ncalls>>

\* bytes of the file a descriptor refers to
FdData(f, t, n) ==
  IF t[n].st = "linked" THEN f[t[n].path].data
  ELSE IF t[n].st = "orphan" THEN t[n].data
  ELSE <<>>

\* the directory entry p goes away: descriptors on it keep the file
Detach(f, t, p) ==
  [n \in FdNames |->
     IF t[n].st = "linked" /\ t[n].path = p
     THEN [st |-> "orphan", path |-> "", data |-> f[p].data, pos |-> t[n].pos]
     ELSE t[n]]

\* unlink(2) on a regular file in a writable directory
SysUnlinkFs(f, p) == [f EXCEPT ![p] = NoFile]
SysUnlinkFdt(f, t, p) == IF f[p].exists THEN Detach(f, t, p) ELSE t

\* rename(2) of an existing old onto new; old # new
SysRenameFs(f, old, new) == [f EXCEPT ![new] = f[old], ![old] = NoFile]
SysRenameFdt(f, t, old, new) ==
  LET t1 == IF f[new].exists THEN Detach(f, t, new) ELSE t
  IN  [n \in FdNames |->
         IF t1[n].st = "linked" /\ t1[n].path = old
         THEN [t1[n] EXCEPT !.path = new]
         ELSE t1[n]]

\* open(2) with O_CREAT | O_TRUNC: an existing file is truncated in place
SysCreatFs(f, p) == [f EXCEPT ![p] = File(<<>>)]

\* bytes of d after writing w at offset pos (a gap is zero-filled)
WriteAt(d, pos, w) ==
  LET n == Max(Len(d), pos + Len(w))
  IN  [i \in 1..n |->
         IF i > pos /\ i <= pos + Len(w) THEN w[i - pos]
         ELSE IF i <= Len(d) THEN d[i] ELSE 0]

\* write(2) of the first k bytes of w through descriptor n
SysWriteFs(f, t, n, w, k) ==
  IF t[n].st = "linked"
  THEN [f EXCEPT ![t[n].path].data = WriteAt(@, t[n].pos, SubSeq(w, 1, k))]
  ELSE f
SysWriteFdt(f, t, n, w, k) ==
  IF t[n].st = "orphan"
  THEN [t EXCEPT ![n].data = WriteAt(@, t[n].pos, SubSeq(w, 1, k)),
                 ![n].pos = @ + k]
  ELSE [t EXCEPT ![n].pos = @ + k]

\* results of read(2) asking for max bytes with avail bytes left in the file
ReadResults(avail, max) ==
  {[n |-> -1, errno |-> e] : e \in {"EINTR", "EIO"}}
    \cup (IF avail = 0 \/ max = 0 THEN {[n |-> 0, errno |-> ""]}
          ELSE {[n |-> k, errno |-> ""] : k \in 1..Min(avail, max)})

\* results of write(2) asked to write size > 0 bytes
WriteResults(size) ==
  {[n |-> -1, errno |-> e] : e \in {"EINTR", "EAGAIN", "EIO"}}
    \cup {[n |-> k, errno |-> ""] : k \in 0..size}

\* read(2) through a descriptor the caller opened: with O_NONBLOCK set (a
\* pipe, a socket) it can also fail with EAGAIN
ReadResultsOn(avail, max, nonblock) ==
  ReadResults(avail, max)
    \cup (IF nonblock THEN {[n |-> -1, errno |-> "EAGAIN"]} ELSE {})

\* read(2) that fills the requested space unless end-of-file is reached
FullReadResults(avail, max) ==
  {[n |-> -1, errno |-> e] : e \in {"EINTR", "EIO"}}
    \cup {[n |-> Min(avail, max), errno |-> ""]}

Avail(f, t, n) == Max(0, Len(FdData(f, t, n)) - t[n].pos)
ReadBytes(f, t, n, k) == SubSeq(FdData(f, t, n), t[n].pos + 1, t[n].pos + k)

\* Fd's destructor, run for every local descriptor when a call returns
\* (CloseLocals_but_dest: a dest_fd that is a plain int nobody closes)
CloseLocals_but_dest(t) ==
  [n \in FdNames |-> IF n \in LocalFds \ {"dest_fd"} THEN ClosedFd ELSE t[n]]
CloseLocals(t) == [n \in FdNames |-> IF n \in LocalFds THEN ClosedFd ELSE t[n]]

\* TemporaryFile(dest): mkstemp takes a name that does not exist yet
HasFreshTmp(f) == \E i \in 1..Len(TmpNames) : ~f[TmpNames[i]].exists
FreshTmp(f) ==
  TmpNames[CHOOSE i \in 1..Len(TmpNames) :
             /\ ~f[TmpNames[i]].exists
             /\ \A j \in 1..(i - 1) : f[TmpNames[j]].exists]

\* ------------------------------------------------------------ call frame
NoArg == [op |-> "none", src |-> "", dest |-> "", via_tmp_file |-> FALSE,
          path |-> "", data |-> <<>>, in_place |-> FALSE,
          pos |-> 0, count |-> 0, size_hint |-> 0, new_size |-> 0,
          oldpath |-> "", newpath |-> "", fd_pos |-> 0,
          have_posix_fallocate |-> FALSE, nonblock |-> FALSE,
          string |-> <<>>, prefix |-> <<>>]
NoLoc == [tmp_file |-> "", buf |-> <<>>, written |-> 0, wr_fd |-> "",
          wr_ret |-> "", wres |-> "", saved_pos |-> 0, old_size |-> 0,
          result |-> <<>>, size |-> 0, chunks |-> <<>>, spin |-> FALSE]
NoRet == [status |-> "none", data |-> <<>>, c_str |-> FALSE, view |-> FALSE]
NoObs == [when |-> "", path |-> "", what |-> "none"]
NoPrev == [op |-> "none", path |-> "", data |-> <<>>, status |-> "none"]

\* "a" is absent or holds any content, "b" is absent or holds at most one
\* byte, no temporary file is around
Init ==
  /\ \E fa \in {NoFile} \cup {File(d) : d \in Contents},
        fb \in {NoFile} \cup {File(d) : d \in {c \in Contents : Len(c) <= 1}} :
       fs = [p \in Paths |-> IF p = "a" THEN fa
                             ELSE IF p = "b" THEN fb ELSE NoFile]
  /\ fdt = [n \in FdNames |-> ClosedFd]
  /\ pc = "idle"
  /\ arg = NoArg
  /\ loc = NoLoc
  /\ ret = NoRet
  /\ ev = {}
  /\ pre = fs
  /\ robs = NoObs
  /\ prev = NoPrev
  /\ ncalls = 0

\* A call starts.  The caller makes one call that changes files; a call
\* that only reads is made on the files as they were at the start, or reads
\* back the file a successful write_file has just written; create_cachedir_tag
\* may be called a second time for the same directory.  A reader still
\* holding a file counts as having opened it before this call.
Begin(a) ==
  /\ pc = "idle"
  /\ IF a.op \in ReadOnlyOps
     THEN /\ \/ ncalls = 0
             \/ /\ a.op = "read_file"
                /\ prev.op = "write_file" /\ prev.path = a.path
          /\ ncalls' = ncalls
     ELSE /\ \/ ncalls = 0
             \/ /\ ncalls = 1
                /\ a.op = "create_cachedir_tag"
                /\ prev.op = "create_cachedir_tag" /\ prev.path = a.path
          /\ ncalls' = ncalls + 1
  /\ arg' = a
  /\ loc' = NoLoc
  /\ ret' = NoRet
  /\ ev' = {}
  /\ pre' = fs
  /\ prev' = prev
  /\ robs' = IF robs.what = "open" THEN [robs EXCEPT !.when = "before"]
             ELSE NoObs

\* the caller has seen write_file return success and goes on to read the
\* file back, remembering what it wrote; or it has seen its first
\* create_cachedir_tag return
Forget ==
  /\ pc = "done"
  /\ \/ arg.op = "write_file" /\ ret.status = "ok"
     \/ arg.op = "create_cachedir_tag" /\ ncalls = 1
  /\ pc' = "idle"
  /\ prev' = [op |-> arg.op, path |-> arg.path, data |-> arg.data,
              status |-> ret.status]
  /\ arg' = NoArg
  /\ loc' = NoLoc
  /\ ret' = NoRet
  /\ ev' = {}
  /\ pre' = fs
  /\ UNCHANGED <<fs, fdt, robs, ncalls>>

Return(status, data) ==
  /\ pc' = "done"
  /\ ret' = [NoRet EXCEPT !.status = status, !.data = data]

\* ----------------------------------------------------------------- reader
\* another process opens a path; what it then reads is FdData of "reader"
ReaderOpen(p) ==
  /\ robs.what = "none"
  /\ robs' = [when |-> IF pc \in {"idle", "done"} THEN "idle" ELSE "during",
              path |-> p,
              what |-> IF fs[p].exists THEN "open" ELSE "enoent"]
  /\ fdt' = IF fs[p].exists THEN [fdt EXCEPT !["reader"] = LinkedFd(p)]
            ELSE fdt
  /\ UNCHANGED <<fs, pc, arg, loc, ret, ev, pre, prev, ncalls>>

ReaderClose ==
  /\ robs.what # "none"
  /\ robs' = NoObs
  /\ fdt' = [fdt EXCEPT !["reader"] = ClosedFd]
  /\ UNCHANGED <<fs, pc, arg, loc, ret, ev, pre, prev, ncalls>>

\* --------------------------------------------------------------- write_fd
\* file.cpp:425-441.  loc.buf is data[0..size), loc.written the counter,
\* loc.wr_fd the descriptor, loc.wr_ret where the caller continues.
EnterWriteFd(l, fd, data, back) ==
  [l EXCEPT !.buf = data, !.written = 0, !.wr_fd = fd, !.wr_ret = back,
            !.wres = ""]

\* what the loop does with the result of one write(2): "retry", "error" or
\* "count" (add the count to written)
write_fd_on_result_no_retry(r) == IF r.n = -1 THEN "error" ELSE "count"
write_fd_on_result_retries_all(r) == IF r.n = -1 THEN "retry" ELSE "count"
write_fd_on_result(r) ==
  IF r.n = -1
  THEN IF r.errno # "EAGAIN" /\ r.errno # "EINTR" THEN "error" ELSE "retry"
  ELSE "count"

write_fd_step ==
  /\ pc = "write_fd"
  /\ IF loc.written >= Len(loc.buf)
     THEN /\ pc' = loc.wr_ret
          /\ loc' = [loc EXCEPT !.wres = "ok"]
          /\ UNCHANGED <<fs, fdt, ev>>
     ELSE \E r \in WriteResults(Len(loc.buf) - loc.written) :
            LET rest == SubSeq(loc.buf, loc.written + 1, Len(loc.buf))
                act == write_fd_on_result(r)
            IN  /\ fs' = IF r.n > 0
                         THEN SysWriteFs(fs, fdt, loc.wr_fd, rest, r.n) ELSE fs
                /\ fdt' = IF r.n > 0
                          THEN SysWriteFdt(fs, fdt, loc.wr_fd, rest, r.n)
                          ELSE fdt
                /\ ev' = IF r.n = -1 /\ r.errno \notin {"EINTR", "EAGAIN"}
                         THEN ev \cup {"write_err"} ELSE ev
                /\ IF act = "error"
                   THEN /\ pc' = loc.wr_ret
                        /\ loc' = [loc EXCEPT !.wres = "err"]
                   ELSE /\ pc' = "write_fd"
                        /\ loc' = IF act = "count"
                                  THEN [loc EXCEPT !.written = @ + r.n]
                                  ELSE loc
  /\ UNCHANGED <<arg, ret, pre, robs, prev, ncalls>>

\* write_fd called with a descriptor of the caller's, empty so far; arg.data
\* is data[0..size), loc.written the counter.  Every
\* write(2) is a step of its own: loc.spin flips with each, so that a write
\* that changes nothing else is still seen.
Start_write_fd(data) ==
  /\ Begin([NoArg EXCEPT !.op = "write_fd", !.data = data])
  /\ pc' = "wr_write"
  /\ fdt' = [fdt EXCEPT !["user"] =
               [st |-> "orphan", path |-> "", pos |-> 0, data |-> <<>>]]
  /\ UNCHANGED fs

\* a write(2) after which the descriptor is no further: EINTR, EAGAIN or
\* zero bytes written
NoProgress(r) == (r.n = -1 /\ r.errno \in {"EINTR", "EAGAIN"}) \/ r.n = 0

\* line 429-438: one pass of the loop, with a write(2) that makes progress
\* (bytes written, or an error other than EINTR and EAGAIN) or makes none
wr_write(progress) ==
  /\ pc = "wr_write"
  /\ loc.written < Len(arg.data)
  /\ \E r \in {x \in WriteResults(Len(arg.data) - loc.written) :
                  NoProgress(x) # progress} :
       LET rest == SubSeq(arg.data, loc.written + 1, Len(arg.data))
           act == write_fd_on_result(r)
       IN  /\ fdt' = IF r.n > 0
                     THEN SysWriteFdt(fs, fdt, "user", rest, r.n) ELSE fdt
           /\ ev' = IF r.n = -1 /\ r.errno \notin {"EINTR", "EAGAIN"}
                    THEN ev \cup {"write_err"} ELSE ev
           /\ IF act = "error"
              THEN /\ loc' = [loc EXCEPT !.wres = "err", !.spin = ~@]
                   /\ Return("err", <<>>)
              ELSE /\ loc' = [loc EXCEPT !.spin = ~@,
                                !.written = IF act = "count" THEN @ + r.n ELSE @]
                   /\ pc' = "wr_write"
                   /\ UNCHANGED ret
  /\ UNCHANGED <<fs, arg, pre, robs, prev, ncalls>>

wr_progress == wr_write(TRUE)
wr_stall == wr_write(FALSE)

\* line 429, 440: the loop ends when written has reached size
wr_return ==
  /\ pc = "wr_write"
  /\ loc.written >= Len(arg.data)
  /\ loc' = [loc EXCEPT !.wres = "ok"]
  /\ Return("ok", <<>>)
  /\ UNCHANGED <<fs, fdt, arg, ev, pre, robs, prev, ncalls>>

\* -------------------------------------------------------------- copy_file
\* file.cpp:63-106
Start_copy_file(src, dest, via) ==
  /\ via => HasFreshTmp(fs)
  /\ Begin([NoArg EXCEPT !.op = "copy_file", !.src = src, !.dest = dest,
                         !.via_tmp_file = via])
  /\ pc' = "cf_open_src"
  /\ fdt' = [fdt EXCEPT !["user"] = ClosedFd]
  /\ UNCHANGED fs

\* a copy_file that goes on to the unlink whatever open(src) returned
cf_after_open_src_unchecked(okay) == "cf_unlink"

\* line 69-72: "if (!src_fd) return make_unexpected(...)" before the unlink
cf_after_open_src(okay) == IF okay THEN "cf_unlink" ELSE "return_err"

\* line 68-72: open(src, O_RDONLY)
cf_open_src ==
  /\ pc = "cf_open_src"
  /\ \E okay \in {b \in BOOLEAN : b => fs[arg.src].exists} :
       /\ ev' = IF okay THEN ev ELSE ev \cup {"open_err"}
       /\ IF cf_after_open_src(okay) = "return_err"
          THEN /\ fdt' = CloseLocals(fdt)
               /\ Return("err", <<>>)
          ELSE /\ fdt' = IF okay
                         THEN [fdt EXCEPT !["src_fd"] = LinkedFd(arg.src)]
                         ELSE fdt
               /\ pc' = "cf_unlink"
               /\ UNCHANGED ret
  /\ UNCHANGED <<fs, arg, loc, pre, robs, prev, ncalls>>

\* line 74: unlink(dest)
cf_unlink ==
  /\ pc = "cf_unlink"
  /\ fs' = SysUnlinkFs(fs, arg.dest)
  /\ fdt' = SysUnlinkFdt(fs, fdt, arg.dest)
  /\ pc' = IF arg.via_tmp_file THEN "cf_tmp" ELSE "cf_open_dest"
  /\ UNCHANGED <<arg, loc, ret, ev, pre, robs, prev, ncalls>>

\* line 79-81: TemporaryFile temp_file(dest); the handle's descriptor and
\* path are taken over, the file itself stays when the handle goes away
cf_tmp ==
  /\ pc = "cf_tmp"
  /\ LET t == FreshTmp(fs)
     IN  /\ fs' = SysCreatFs(fs, t)
         /\ fdt' = [fdt EXCEPT !["dest_fd"] = LinkedFd(t)]
         /\ loc' = [loc EXCEPT !.tmp_file = t]
  /\ pc' = "read_fd"
  /\ UNCHANGED <<arg, ret, ev, pre, robs, prev, ncalls>>

\* line 83-88: open(dest, O_WRONLY | O_CREAT | O_TRUNC)
cf_open_dest ==
  /\ pc = "cf_open_dest"
  /\ \E okay \in BOOLEAN :
       IF okay
       THEN /\ fs' = SysCreatFs(fs, arg.dest)
            /\ fdt' = [fdt EXCEPT !["dest_fd"] = LinkedFd(arg.dest)]
            /\ pc' = "read_fd"
            /\ UNCHANGED <<ret, ev>>
       ELSE /\ fdt' = CloseLocals(fdt)
            /\ ev' = ev \cup {"open_dest_err"}
            /\ Return("err", <<>>)
            /\ UNCHANGED fs
  /\ UNCHANGED <<arg, loc, pre, robs, prev, ncalls>>

\* --------------------------------------------------------------- read_fd
\* file.cpp:182-199.  What the loop does with the result of one read(2):
\* "eof" (return success), "error" (return the error), "retry", "deliver"
read_fd_on_result_eintr_ends(r) ==
  IF r.n = 0 \/ (r.n = -1 /\ r.errno = "EINTR") THEN "eof"
  ELSE IF r.n = -1 THEN "error"
  ELSE "deliver"
read_fd_on_result(r) ==
  IF r.n = 0 THEN "eof"
  ELSE IF r.n = -1 /\ r.errno # "EINTR" THEN "error"
  ELSE IF r.n > 0 THEN "deliver"
  ELSE "retry"

\* copy_file without the TRY: a failed read_fd is not looked at
cf_after_read_fd_unchecked(result) == "cf_close"

\* line 90-92: TRY(read_fd(...)) leaves copy_file with the error
cf_after_read_fd(result) == IF result = "err" THEN "return_err" ELSE "cf_close"

\* line 91: the receiver calls write_fd and drops its result
cf_receiver_next(wres) == "read_fd"

read_fd_step ==
  /\ pc = "read_fd"
  /\ \E r \in ReadResults(Avail(fs, fdt, "src_fd"), CCACHE_READ_BUFFER_SIZE) :
       LET act == read_fd_on_result(r)
       IN  /\ ev' = IF r.n = -1 /\ r.errno # "EINTR"
                    THEN ev \cup {"read_err"} ELSE ev
           /\ IF act = "deliver"
              THEN /\ fdt' = [fdt EXCEPT !["src_fd"].pos = @ + r.n]
                   /\ loc' = EnterWriteFd(loc, "dest_fd",
                               ReadBytes(fs, fdt, "src_fd", r.n), "cf_receiver")
                   /\ pc' = "write_fd"
                   /\ UNCHANGED ret
              ELSE IF act = "retry"
              THEN /\ pc' = "read_fd"
                   /\ UNCHANGED <<fdt, loc, ret>>
              ELSE IF cf_after_read_fd(IF act = "error" THEN "err" ELSE "ok")
                        = "return_err"
              THEN /\ fdt' = CloseLocals(fdt)
                   /\ Return("err", <<>>)
                   /\ UNCHANGED loc
              ELSE /\ pc' = "cf_close"
                   /\ UNCHANGED <<fdt, loc, ret>>
  /\ UNCHANGED <<fs, arg, pre, robs, prev, ncalls>>

\* read_fd called with a descriptor of the caller's, which holds data (the
\* bytes still to come from fd_pos on are data[fd_pos..]) and belongs to no
\* named file; the receiver appends each chunk to loc.chunks.
Start_read_fd(data, fd_pos, nonblock) ==
  /\ fd_pos <= Len(data)
  /\ Begin([NoArg EXCEPT !.op = "read_fd", !.data = data, !.fd_pos = fd_pos,
                         !.nonblock = nonblock])
  /\ pc' = "rd_read"
  /\ fdt' = [fdt EXCEPT !["user"] =
               [st |-> "orphan", path |-> "", pos |-> fd_pos, data |-> data]]
  /\ UNCHANGED fs

\* line 186-198: one read(2) of the loop and what follows from it
rd_read ==
  /\ pc = "rd_read"
  /\ \E r \in ReadResultsOn(Avail(fs, fdt, "user"), CCACHE_READ_BUFFER_SIZE,
                             arg.nonblock) :
       LET act == read_fd_on_result(r)
       IN  /\ ev' = IF r.n = -1 /\ r.errno = "EAGAIN"
                    THEN ev \cup {"read_eagain"}
                    ELSE IF r.n = -1 /\ r.errno # "EINTR"
                    THEN ev \cup {"read_err"} ELSE ev
           /\ IF act = "deliver"
              THEN /\ fdt' = [fdt EXCEPT !["user"].pos = @ + r.n]
                   /\ loc' = [loc EXCEPT !.chunks =
                                Append(@, ReadBytes(fs, fdt, "user", r.n))]
                   /\ pc' = "rd_read"
                   /\ UNCHANGED ret
              ELSE IF act = "retry"
              THEN /\ pc' = "rd_read"
                   /\ UNCHANGED <<fdt, loc, ret>>
              ELSE /\ Return(IF act = "error" THEN "err" ELSE "ok", <<>>)
                   /\ UNCHANGED <<fdt, loc>>
  /\ UNCHANGED <<fs, arg, pre, robs, prev, ncalls>>

\* the receiver lambda returns to read_fd's loop
cf_receiver ==
  /\ pc = "cf_receiver"
  /\ IF cf_receiver_next(loc.wres) = "read_fd"
     THEN /\ pc' = "read_fd"
          /\ UNCHANGED <<fdt, ret>>
     ELSE /\ fdt' = CloseLocals(fdt)
          /\ Return("err", <<>>)
  /\ UNCHANGED <<fs, arg, loc, ev, pre, robs, prev, ncalls>>

\* line 94-97: both descriptors are closed before the rename
cf_close ==
  /\ pc = "cf_close"
  /\ fdt' = CloseLocals(fdt)
  /\ IF arg.via_tmp_file
     THEN pc' = "cf_rename" /\ UNCHANGED ret
     ELSE Return("ok", <<>>)
  /\ UNCHANGED <<fs, arg, loc, ev, pre, robs, prev, ncalls>>

\* ----------------------------------------------------------------- rename
\* file.cpp:372-389: ::rename replaces an existing newpath; a failure leaves
\* both names alone.  Returns "ok" or "err".
\* a rename that reports success but leaves an existing newpath alone
rename_fs_no_overwrite(f, oldpath, newpath, okay) ==
  IF okay /\ oldpath # newpath /\ ~f[newpath].exists
  THEN SysRenameFs(f, oldpath, newpath) ELSE f

rename_fs(f, oldpath, newpath, okay) ==
  IF okay /\ oldpath # newpath THEN SysRenameFs(f, oldpath, newpath) ELSE f
rename_fdt(f, t, oldpath, newpath, okay) ==
  IF okay /\ oldpath # newpath THEN SysRenameFdt(f, t, oldpath, newpath) ELSE t
rename_result(okay) == IF okay THEN "ok" ELSE "err"
\* ::rename can only succeed when oldpath exists
RenameOutcomes(f, oldpath) == {b \in BOOLEAN : b => f[oldpath].exists}

\* line 98-102
cf_rename ==
  /\ pc = "cf_rename"
  /\ \E okay \in RenameOutcomes(fs, loc.tmp_file) :
       /\ fs' = rename_fs(fs, loc.tmp_file, arg.dest, okay)
       /\ fdt' = rename_fdt(fs, fdt, loc.tmp_file, arg.dest, okay)
       /\ ev' = IF okay THEN ev ELSE ev \cup {"rename_err"}
       /\ Return(rename_result(okay), <<>>)
  /\ UNCHANGED <<arg, loc, pre, robs, prev, ncalls>>

\* line 376-388 as a call of its own
Start_rename(oldpath, newpath) ==
  /\ Begin([NoArg EXCEPT !.op = "rename", !.oldpath = oldpath,
                         !.newpath = newpath])
  /\ pc' = "rename"
  /\ fdt' = [fdt EXCEPT !["user"] = ClosedFd]
  /\ UNCHANGED fs

rename_call ==
  /\ pc = "rename"
  /\ \E okay \in RenameOutcomes(fs, arg.oldpath) :
       /\ fs' = rename_fs(fs, arg.oldpath, arg.newpath, okay)
       /\ fdt' = rename_fdt(fs, fdt, arg.oldpath, arg.newpath, okay)
       /\ ev' = IF okay THEN ev ELSE ev \cup {"rename_err"}
       /\ Return(rename_result(okay), <<>>)
  /\ UNCHANGED <<arg, loc, pre, robs, prev, ncalls>>

\* ------------------------------------------------------------- write_file
\* file.cpp:456-469 (the text overload, 443-454, differs only in the O_TEXT
\* flag, which is 0 on POSIX)
Start_write_file(path, data, in_place) ==
  /\ Begin([NoArg EXCEPT !.op = "write_file", !.path = path, !.data = data,
                         !.in_place = in_place])
  /\ pc' = "wf_unlink"
  /\ fdt' = [fdt EXCEPT !["user"] = ClosedFd]
  /\ UNCHANGED fs

\* line 122-125: create_cachedir_tag, which returns void, only logs a
\* failure of the write_file it calls; any other caller gets the result
write_file_result(op, result) ==
  IF op = "create_cachedir_tag" THEN "ok" ELSE result

\* write_file that never unlinks
write_file_unlinks_never(in_place) == FALSE

\* line 461-463: in_place == InPlace::no unlinks the path first
write_file_unlinks(in_place) == ~in_place

wf_unlink ==
  /\ pc = "wf_unlink"
  /\ IF write_file_unlinks(arg.in_place)
     THEN /\ fs' = SysUnlinkFs(fs, arg.path)
          /\ fdt' = SysUnlinkFdt(fs, fdt, arg.path)
     ELSE UNCHANGED <<fs, fdt>>
  /\ pc' = "wf_open"
  /\ UNCHANGED <<arg, loc, ret, ev, pre, robs, prev, ncalls>>

\* line 464-468: open(path, O_WRONLY | O_CREAT | O_TRUNC), then write_fd
wf_open ==
  /\ pc = "wf_open"
  /\ \E okay \in BOOLEAN :
       IF okay
       THEN /\ fs' = SysCreatFs(fs, arg.path)
            /\ fdt' = [fdt EXCEPT !["fd"] = LinkedFd(arg.path)]
            /\ loc' = EnterWriteFd(loc, "fd", arg.data, "wf_return")
            /\ pc' = "write_fd"
            /\ UNCHANGED <<ret, ev>>
       ELSE /\ fdt' = CloseLocals(fdt)
            /\ ev' = ev \cup {"open_err"}
            /\ Return(write_file_result(arg.op, "err"), <<>>)
            /\ UNCHANGED <<fs, loc>>
  /\ UNCHANGED <<arg, pre, robs, prev, ncalls>>

\* line 468: return write_fd(...); fd's destructor closes the descriptor
wf_return ==
  /\ pc = "wf_return"
  /\ fdt' = CloseLocals(fdt)
  /\ Return(write_file_result(arg.op, loc.wres), <<>>)
  /\ UNCHANGED <<fs, arg, loc, ev, pre, robs, prev, ncalls>>

\* ---------------------------------------------------- create_cachedir_tag
\* file.cpp:108-126.  arg.path is dir/CACHEDIR.TAG; cachedir_tag stands for
\* the marker text of line 111-115.
cachedir_tag == <<1, 0>>

Start_create_cachedir_tag(path) ==
  /\ Begin([NoArg EXCEPT !.op = "create_cachedir_tag", !.path = path,
                         !.data = cachedir_tag])
  /\ pc' = "ct_stat"
  /\ fdt' = [fdt EXCEPT !["user"] = ClosedFd]
  /\ UNCHANGED fs

\* a create_cachedir_tag that does not look at the stat result
create_cachedir_tag_skips_never(exists) == FALSE

\* line 118-121: "if (stat) return;"
create_cachedir_tag_skips(exists) == exists

\* line 118-122: stat, then write_file(path, cachedir_tag) with the default
\* InPlace::no
ct_stat ==
  /\ pc = "ct_stat"
  /\ IF create_cachedir_tag_skips(fs[arg.path].exists)
     THEN Return("ok", <<>>)
     ELSE pc' = "wf_unlink" /\ UNCHANGED ret
  /\ UNCHANGED <<fs, fdt, arg, loc, ev, pre, robs, prev, ncalls>>

\* -------------------------------------------------------------- read_file
\* file.cpp:211-264 (POSIX: no UTF-16 conversion).  loc.result holds
\* result[0..pos), loc.size is result.size(); the rest of the buffer is the
\* zero bytes resize() put there.
Start_read_file(path, size_hint) ==
  /\ Begin([NoArg EXCEPT !.op = "read_file", !.path = path,
                         !.size_hint = size_hint])
  /\ pc' = "rf_stat"
  /\ fdt' = [fdt EXCEPT !["user"] = ClosedFd]
  /\ UNCHANGED fs

\* line 224: +1 to be able to detect EOF in the first read call
read_file_buffer_size(size_hint) ==
  IF size_hint < 1024 THEN 1024 ELSE (size_hint + 1) % (SIZE_MAX + 1)

\* line 215-224
rf_stat ==
  /\ pc = "rf_stat"
  /\ IF arg.size_hint = 0 /\ ~fs[arg.path].exists
     THEN /\ ev' = ev \cup {"stat_err"}
          /\ fdt' = CloseLocals(fdt)
          /\ Return("err", <<>>)
          /\ UNCHANGED loc
     ELSE /\ loc' = [loc EXCEPT !.size =
                       read_file_buffer_size(
                         IF arg.size_hint = 0 THEN Len(fs[arg.path].data)
                         ELSE arg.size_hint)]
          /\ pc' = "rf_open"
          /\ UNCHANGED <<fdt, ret, ev>>
  /\ UNCHANGED <<fs, arg, pre, robs, prev, ncalls>>

\* line 233-241
rf_open ==
  /\ pc = "rf_open"
  /\ \E okay \in {b \in BOOLEAN : b => fs[arg.path].exists} :
       IF okay
       THEN /\ fdt' = [fdt EXCEPT !["fd"] = LinkedFd(arg.path)]
            /\ pc' = "rf_read"
            /\ UNCHANGED <<ret, ev>>
       ELSE /\ fdt' = CloseLocals(fdt)
            /\ ev' = ev \cup {"open_err"}
            /\ Return("err", <<>>)
  /\ UNCHANGED <<fs, arg, loc, pre, robs, prev, ncalls>>

\* line 244-246: the buffer is doubled when it is full
read_file_grow(size, pos) ==
  IF pos = size THEN (2 * size) % (SIZE_MAX + 1) ELSE size

\* line 249-257: what the loop does with the result of one read(2) that was
\* asked for max_read bytes: "break" or "continue"
read_file_on_result(r, max_read) ==
  IF r.n = 0 \/ (r.n = -1 /\ r.errno # "EINTR") THEN "break"
  ELSE IF r.n > 0 /\ r.n < max_read THEN "break"
  ELSE "continue"

\* line 260-264: the value returned after the loop
read_file_result(r, result, pos) ==
  IF r.n = -1 THEN [status |-> "err", data |-> <<>>]
  ELSE [status |-> "ok", data |-> SubSeq(result, 1, pos)]

\* result[0..size) as the container holds it
Buffer(filled, size) == filled \o Zeros(size - Len(filled))

\* line 243-264: one pass of the loop; full says that a read(2) fills the
\* requested space unless end-of-file is reached
rf_read_with(full) ==
  /\ pc = "rf_read"
  /\ LET pos == Len(loc.result)
         size == read_file_grow(loc.size, pos)
         max_read == size - pos
     IN  \E r \in IF full
                   THEN FullReadResults(Avail(fs, fdt, "fd"), max_read)
                   ELSE ReadResults(Avail(fs, fdt, "fd"), max_read) :
           LET got == IF r.n > 0 THEN ReadBytes(fs, fdt, "fd", r.n) ELSE <<>>
               filled == loc.result \o got
           IN  /\ ev' = ev
                     \cup (IF r.n = -1 /\ r.errno # "EINTR"
                           THEN {"read_err"} ELSE {})
                     \cup (IF r.n > 0
                              /\ r.n < Min(Avail(fs, fdt, "fd"), max_read)
                           THEN {"short_read"} ELSE {})
               /\ IF read_file_on_result(r, max_read) = "break"
                  THEN /\ fdt' = CloseLocals(fdt)
                       /\ loc' = [loc EXCEPT !.result = filled, !.size = size]
                       /\ LET v == read_file_result(
                                     r, Buffer(filled, size), Len(filled))
                          IN  Return(v.status, v.data)
                  ELSE /\ fdt' = IF r.n > 0
                                 THEN [fdt EXCEPT !["fd"].pos = @ + r.n]
                                 ELSE fdt
                       /\ loc' = [loc EXCEPT !.result = filled, !.size = size]
                       /\ pc' = "rf_read"
                       /\ UNCHANGED ret
  /\ UNCHANGED <<fs, arg, pre, robs, prev, ncalls>>

rf_read == rf_read_with(FALSE)
rf_read_full == rf_read_with(TRUE)

\* --------------------------------------------------------- read_file_part
\* file.cpp:317-361
Start_read_file_part(path, pos, count) ==
  /\ Begin([NoArg EXCEPT !.op = "read_file_part", !.path = path,
                         !.pos = pos, !.count = count])
  /\ pc' = "rp_open"
  /\ fdt' = [fdt EXCEPT !["user"] = ClosedFd]
  /\ UNCHANGED fs

\* line 322: "if (count == 0) return result;" stands before the open
read_file_part_returns_early_never(count) == FALSE
read_file_part_returns_early(count) == count = 0

\* line 321-334: count == 0 returns at once; open; lseek unless pos == 0
rp_open ==
  /\ pc = "rp_open"
  /\ IF read_file_part_returns_early(arg.count)
     THEN /\ fdt' = CloseLocals(fdt)
          /\ Return("ok", <<>>)
          /\ UNCHANGED ev
     ELSE \E okay \in {b \in BOOLEAN : b => fs[arg.path].exists} :
            IF okay
            THEN /\ fdt' = [fdt EXCEPT !["fd"] =
                              [LinkedFd(arg.path) EXCEPT !.pos = arg.pos]]
                 /\ pc' = "rp_read"
                 /\ ev' = ev \cup {"opened"}
                 /\ UNCHANGED ret
            ELSE /\ fdt' = CloseLocals(fdt)
                 /\ ev' = ev \cup {"open_err"}
                 /\ Return("err", <<>>)
  /\ UNCHANGED <<fs, arg, loc, pre, robs, prev, ncalls>>

\* line 343-351: "break" or "continue" after one read(2), bytes_read being
\* the counter after the result was added
read_file_part_on_result(r, bytes_read, count) ==
  IF r.n = 0 \/ (r.n = -1 /\ r.errno # "EINTR") THEN "break"
  ELSE IF r.n > 0 /\ bytes_read = count THEN "break"
  ELSE "continue"

\* read_file_part without the final resize(bytes_read)
read_file_part_result_unresized(r, result, bytes_read) ==
  IF r.n = -1 THEN [status |-> "err", data |-> <<>>]
  ELSE [status |-> "ok", data |-> result]

\* line 354-360: the value returned after the loop
read_file_part_result(r, result, bytes_read) ==
  IF r.n = -1 THEN [status |-> "err", data |-> <<>>]
  ELSE [status |-> "ok", data |-> SubSeq(result, 1, bytes_read)]

rp_read ==
  /\ pc = "rp_read"
  /\ LET max_read == arg.count - Len(loc.result)
     IN  \E r \in ReadResults(Avail(fs, fdt, "fd"), max_read) :
           LET got == IF r.n > 0 THEN ReadBytes(fs, fdt, "fd", r.n) ELSE <<>>
               filled == loc.result \o got
           IN  /\ ev' = IF r.n = -1 /\ r.errno # "EINTR"
                        THEN ev \cup {"read_err"} ELSE ev
               /\ loc' = [loc EXCEPT !.result = filled, !.size = arg.count]
               /\ IF read_file_part_on_result(r, Len(filled), arg.count)
                       = "break"
                  THEN /\ fdt' = CloseLocals(fdt)
                       /\ LET v == read_file_part_result(
                                     r, Buffer(filled, arg.count), Len(filled))
                          IN  Return(v.status, v.data)
                  ELSE /\ fdt' = IF r.n > 0
                                 THEN [fdt EXCEPT !["fd"].pos = @ + r.n]
                                 ELSE fdt
                       /\ pc' = "rp_read"
                       /\ UNCHANGED ret
  /\ UNCHANGED <<fs, arg, pre, robs, prev, ncalls>>

\* -------------------------------------------------------------- fallocate
\* file.cpp:128-167.  The caller's descriptor "user" is open on path at
\* offset fd_pos; have_posix_fallocate is the build's HAVE_POSIX_FALLOCATE.
Start_fallocate(path, fd_pos, new_size, have) ==
  /\ fs[path].exists
  /\ fd_pos <= Len(fs[path].data)
  /\ Begin([NoArg EXCEPT !.op = "fallocate", !.path = path,
                         !.fd_pos = fd_pos, !.new_size = new_size,
                         !.have_posix_fallocate = have])
  /\ pc' = IF have THEN "fa_posix" ELSE "fa_lseek"
  /\ fdt' = [fdt EXCEPT !["user"] = [LinkedFd(path) EXCEPT !.pos = fd_pos]]
  /\ UNCHANGED fs

\* posix_fallocate(fd, 0, len): EINVAL for len = 0 or a file system without
\* support; on success the file is at least len bytes, the offset untouched
PosixFallocateResults(len) ==
  IF len = 0 THEN {"EINVAL"} ELSE {"0", "EINVAL", "ENOSPC"}
SysExtend(d, len) == d \o Zeros(len - Len(d))

\* line 133-141: "return_ok", "return_err" or "fallback"
fallocate_after_posix(err) ==
  IF err = "0" THEN "return_ok"
  ELSE IF err # "EINVAL" THEN "return_err"
  ELSE "fallback"

fa_posix ==
  /\ pc = "fa_posix"
  /\ \E err \in PosixFallocateResults(arg.new_size) :
       LET act == fallocate_after_posix(err)
       IN  /\ fs' = IF err = "0"
                    THEN [fs EXCEPT ![arg.path].data =
                            SysExtend(@, arg.new_size)]
                    ELSE fs
           /\ ev' = IF err \notin {"0", "EINVAL"}
                    THEN ev \cup {"posix_fallocate_err"} ELSE ev
           /\ IF act = "fallback"
              THEN pc' = "fa_lseek" /\ UNCHANGED ret
              ELSE Return(IF act = "return_ok" THEN "ok" ELSE "err", <<>>)
  /\ UNCHANGED <<fdt, arg, loc, pre, robs, prev, ncalls>>

\* line 142: the offset that is put back at the end, given the descriptor's
\* offset and the file's size: lseek(fd, 0, SEEK_END) returns the size
fallocate_saved_pos(fd_pos, size) == size

\* line 142-153; lseek fails on a descriptor that cannot seek
fa_lseek ==
  /\ pc = "fa_lseek"
  /\ \E seekable \in BOOLEAN :
       LET size == Len(FdData(fs, fdt, "user"))
           saved_pos == IF seekable
                        THEN fallocate_saved_pos(fdt["user"].pos, size)
                        ELSE -1
           old_size == IF seekable THEN size ELSE -1
       IN  /\ loc' = [loc EXCEPT !.saved_pos = saved_pos,
                                 !.old_size = old_size]
           /\ IF old_size = -1
              THEN /\ ev' = ev \cup {"lseek_err"}
                   /\ UNCHANGED fdt
                   /\ Return("err", <<>>)
              ELSE IF old_size >= arg.new_size
              THEN /\ fdt' = [fdt EXCEPT !["user"].pos = saved_pos]
                   /\ Return("ok", <<>>)
                   /\ UNCHANGED ev
              ELSE /\ fdt' = [fdt EXCEPT !["user"].pos = size]
                   /\ pc' = "fa_calloc"
                   /\ UNCHANGED <<ret, ev>>
  /\ UNCHANGED <<fs, arg, pre, robs, prev, ncalls>>

\* line 153-162: calloc(bytes_to_write, 1), then write_fd of the zero block
fa_calloc ==
  /\ pc = "fa_calloc"
  /\ \E okay \in BOOLEAN :
       IF okay
       THEN /\ loc' = EnterWriteFd(loc, "user",
                        Zeros(arg.new_size - loc.old_size), "fa_after_write")
            /\ pc' = "write_fd"
            /\ UNCHANGED <<fdt, ret, ev>>
       ELSE /\ fdt' = [fdt EXCEPT !["user"].pos = loc.saved_pos]
            /\ ev' = ev \cup {"calloc_err"}
            /\ Return("err", <<>>)
            /\ UNCHANGED loc
  /\ UNCHANGED <<fs, arg, pre, robs, prev, ncalls>>

\* line 162-166: a failed write_fd returns at once, otherwise the offset is
\* set to saved_pos
fa_after_write ==
  /\ pc = "fa_after_write"
  /\ IF loc.wres = "err"
     THEN /\ Return("err", <<>>)
          /\ UNCHANGED fdt
     ELSE /\ fdt' = [fdt EXCEPT !["user"].pos = loc.saved_pos]
          /\ Return("ok", <<>>)
  /\ UNCHANGED <<fs, arg, loc, ev, pre, robs, prev, ncalls>>

Next ==
  \/ \E s \in UserPaths, d \in UserPaths, v \in BOOLEAN : Start_copy_file(s, d, v)
  \/ cf_open_src
  \/ cf_unlink
  \/ cf_tmp
  \/ cf_open_dest
  \/ read_fd_step
  \/ cf_receiver
  \/ cf_close
  \/ cf_rename
  \/ write_fd_step
  \/ \E o \in UserPaths, n \in UserPaths : Start_rename(o, n)
  \/ rename_call
  \/ \E p \in UserPaths, d \in Contents, i \in BOOLEAN : Start_write_file(p, d, i)
  \/ wf_unlink
  \/ wf_open
  \/ wf_return
  \/ \E p \in UserPaths : Start_create_cachedir_tag(p)
  \/ ct_stat
  \/ \E p \in UserPaths, h \in SizeHints : Start_read_file(p, h)
  \/ rf_stat
  \/ rf_open
  \/ rf_read
  \/ \E p \in UserPaths, o \in 0..(MaxLen + 1), c \in 0..(MaxLen + 1) :
       Start_read_file_part(p, o, c)
  \/ rp_open
  \/ rp_read
  \/ \E p \in UserPaths, o \in 0..MaxLen, n \in 0..(MaxLen + 1), h \in BOOLEAN :
       Start_fallocate(p, o, n, h)
  \/ fa_posix
  \/ fa_lseek
  \/ fa_calloc
  \/ fa_after_write
  \/ Forget

Spec == Init /\ [][Next]_vars

\* ------------------------------------------------------------ starts_with
\* string.hpp:189-201.  A char is 0 (NUL) or one of two other values; a
\* const char* argument is the chars of the string followed by the NUL, a
\* string_view is its chars, which may include NUL.
Char == {0, 1, 2}
CStrings == UNION {[1..n -> Char \ {0}] : n \in 0..MaxLen}
Views == UNION {[1..n -> Char] : n \in 0..(MaxLen + 1)}

\* std::strncmp(a, b, n) == 0 from char i on: at most n chars are compared,
\* and nothing after a NUL that both have
RECURSIVE strncmp_equal(_, _, _, _)
strncmp_equal(a, b, n, i) ==
  IF i > n THEN TRUE
  ELSE IF a[i] # b[i] THEN FALSE
  ELSE IF a[i] = 0 THEN TRUE
  ELSE strncmp_equal(a, b, n, i + 1)

\* line 189-195: strncmp(string, prefix.data(), prefix.length()) == 0
starts_with_c_str(string, prefix) ==
  strncmp_equal(Append(string, 0), prefix, Len(prefix), 1)

\* line 197-201: string.substr(0, prefix.size()) == prefix
starts_with_view(string, prefix) ==
  SubSeq(string, 1, Min(Len(prefix), Len(string))) = prefix

\* Both overloads applied to one string and one prefix
InitStr ==
  /\ fs = [p \in Paths |-> NoFile]
  /\ fdt = [n \in FdNames |-> ClosedFd]
  /\ pc = "sw_c_str"
  /\ \E str \in CStrings, pre_ \in Views :
       arg = [NoArg EXCEPT !.op = "starts_with", !.string = str,
                           !.prefix = pre_]
  /\ loc = NoLoc
  /\ ret = NoRet
  /\ ev = {}
  /\ pre = fs
  /\ robs = NoObs
  /\ prev = NoPrev
  /\ ncalls = 0

sw_c_str ==
  /\ pc = "sw_c_str"
  /\ ret' = [ret EXCEPT !.c_str = starts_with_c_str(arg.string, arg.prefix)]
  /\ pc' = "sw_view"
  /\ UNCHANGED <<fs, fdt, arg, loc, ev, pre, robs, prev, ncalls>>

sw_view ==
  /\ pc = "sw_view"
  /\ ret' = [ret EXCEPT !.view = starts_with_view(arg.string, arg.prefix),
                        !.status = "ok"]
  /\ pc' = "done"
  /\ UNCHANGED <<fs, fdt, arg, loc, ev, pre, robs, prev, ncalls>>

NextStr ==
  \/ sw_c_str
  \/ sw_view

SpecStr == InitStr /\ [][NextStr]_vars

\* One call of read_fd on a descriptor of the caller's; no named file is
\* involved, and the data behind the descriptor may be longer than the
\* chunk buffer
InitFd ==
  /\ fs = [p \in Paths |-> NoFile]
  /\ fdt = [n \in FdNames |-> ClosedFd]
  /\ pc = "idle"
  /\ arg = NoArg
  /\ loc = NoLoc
  /\ ret = NoRet
  /\ ev = {}
  /\ pre = fs
  /\ robs = NoObs
  /\ prev = NoPrev
  /\ ncalls = 0

NextFd ==
  \/ \E d \in SeqsUpTo(MaxLen + 1), o \in 0..(MaxLen + 1), n \in BOOLEAN :
       Start_read_fd(d, o, n)
  \/ rd_read

SpecFd == InitFd /\ [][NextFd]_vars

\* One call of read_file on a file about as large as the buffer or larger,
\* with reads that fill the requested space unless end-of-file is reached
BigFile(n) == [i \in 1..n |-> IF i % 3 = 0 THEN 1 ELSE 0]

InitBig ==
  /\ \E n \in BigSizes :
       fs = [p \in Paths |-> IF p = "a" THEN File(BigFile(n)) ELSE NoFile]
  /\ fdt = [n \in FdNames |-> ClosedFd]
  /\ pc = "idle"
  /\ arg = NoArg
  /\ loc = NoLoc
  /\ ret = NoRet
  /\ ev = {}
  /\ pre = fs
  /\ robs = NoObs
  /\ prev = NoPrev
  /\ ncalls = 0

NextBig ==
  \/ \E p \in UserPaths, h \in BigHints : Start_read_file(p, h)
  \/ rf_stat
  \/ rf_open
  \/ rf_read_full

SpecBig == InitBig /\ [][NextBig]_vars

\* One call of write_fd on a descriptor of the caller's.  The loop runs on
\* its own (wr_return); that the descriptor makes progress in the end
\* (wr_progress) is the caller's assumption about it.
NextWr ==
  \/ \E d \in SeqsUpTo(MaxLen + 1) : Start_write_fd(d)
  \/ wr_progress
  \/ wr_stall
  \/ wr_return

SpecWr ==
  /\ InitFd
  /\ [][NextWr]_vars
  /\ WF_vars(wr_progress)
  /\ WF_vars(wr_return)

\* One call of copy_file or write_file with the reader running beside it
NextReader ==
  \/ \E s \in UserPaths, d \in UserPaths, v \in BOOLEAN : Start_copy_file(s, d, v)
  \/ \E p \in UserPaths, d \in Contents, i \in BOOLEAN : Start_write_file(p, d, i)
  \/ cf_open_src
  \/ cf_unlink
  \/ cf_tmp
  \/ cf_open_dest
  \/ read_fd_step
  \/ cf_receiver
  \/ cf_close
  \/ cf_rename
  \/ write_fd_step
  \/ wf_unlink
  \/ wf_open
  \/ wf_return
  \/ \E p \in UserPaths : ReaderOpen(p)
  \/ ReaderClose

SpecReader == Init /\ [][NextReader]_vars

\* ======================================================================
\* Properties
\* ======================================================================
Done(op) == pc = "done" /\ arg.op = op
dest_fd_wrote == loc.tmp_file # "" /\ fs[loc.tmp_file].data # <<>>

\* C1: copy_file with via_tmp_file = yes whose read of the source failed with
\* a genuine (non-EINTR) error returns an error, and the destination path
\* does not exist afterward, whatever it held before.
C1_ReadFailureLeavesDestAbsent ==
  (Done("copy_file") /\ arg.via_tmp_file /\ "read_err" \in ev)
    => (ret.status = "err" /\ ~fs[arg.dest].exists)

\* the read failed partway: part of the source was already copied, and the
\* destination held bytes before the call
C1_Witness ==
  /\ Done("copy_file") /\ arg.via_tmp_file /\ "read_err" \in ev
  /\ pre[arg.dest].exists /\ pre[arg.dest].data # <<>>
  /\ dest_fd_wrote

\* C2: a write to the destination that failed with a genuine error makes
\* copy_file return an error; with via_tmp_file = yes the destination path
\* is then absent, so that it never holds a strict prefix of the source.
C2_WriteFailureIsReported ==
  (Done("copy_file") /\ "write_err" \in ev)
    => /\ ret.status = "err"
       /\ arg.via_tmp_file
            => /\ ~fs[arg.dest].exists
               /\ ~IsStrictPrefix(fs[arg.dest].data, pre[arg.src].data)

\* C3: when copy_file with via_tmp_file = yes has returned a failure, no
\* temporary file it created exists any more.
C3_NoTemporaryFileLeftBehind ==
  (Done("copy_file") /\ arg.via_tmp_file /\ ret.status = "err")
    => \A t \in TmpPaths : fs[t].exists => pre[t].exists

\* C4: a reader that opens dest at any step of a copy_file with
\* via_tmp_file = yes over an existing dest gets a file, and the file holds
\* the old complete content or the new complete content.
C4_ReaderSeesOldOrNew ==
  (/\ arg.op = "copy_file" /\ arg.via_tmp_file /\ pre[arg.dest].exists
   /\ robs.when = "during" /\ robs.path = arg.dest /\ robs.what # "none")
    => /\ robs.what = "open"
       /\ FdData(fs, fdt, "reader")
            \in {pre[arg.dest].data, pre[arg.src].data}

\* C5: a reader that opened the file before write_file was called sees, at
\* every step of the call, the old complete content when in_place = no;
\* with in_place = yes it sees the file itself being truncated and rewritten
\* (exactly the bytes written so far) once the call has opened it.
ReaderHoldsOld ==
  /\ arg.op = "write_file" /\ pc # "idle"
  /\ robs.what = "open" /\ robs.when = "before" /\ robs.path = arg.path
C5_ReaderOfOldFile ==
  ReaderHoldsOld
    => IF ~arg.in_place \/ pc \in {"wf_unlink", "wf_open"} \/ "open_err" \in ev
       THEN FdData(fs, fdt, "reader") = pre[arg.path].data
       ELSE /\ fdt["reader"].st = "linked"
            /\ FdData(fs, fdt, "reader") = SubSeq(arg.data, 1, loc.written)

\* in_place = no, the new file is being written and already differs from the
\* old one the reader holds
C5_Witness ==
  /\ ReaderHoldsOld /\ ~arg.in_place /\ pc = "write_fd" /\ loc.written > 0
  /\ pre[arg.path].data # <<>>
  /\ fs[arg.path].data # pre[arg.path].data

\* C6: after write_file(path, b) returned success, read_file(path) with no
\* size hint returns success and exactly b (no system call of the read
\* having failed).
C6_RoundTrip ==
  (/\ Done("read_file") /\ arg.size_hint = 0
   /\ prev.op = "write_file" /\ prev.path = arg.path
   /\ ev \cap {"stat_err", "open_err", "read_err"} = {})
    => (ret.status = "ok" /\ ret.data = prev.data)

\* C7: on every return of fallocate the descriptor's offset is what it was
\* before the call.
C7_PositionRestored ==
  Done("fallocate") => fdt["user"].pos = arg.fd_pos

\* C8: fallocate with new_size not larger than the file's size returns
\* success, leaves size and content alone and does not move the offset (no
\* system call of it having failed).
C8_NotLargerIsNoOp ==
  (Done("fallocate") /\ arg.new_size <= Len(pre[arg.path].data) /\ ev = {})
    => /\ ret.status = "ok"
       /\ fs[arg.path] = pre[arg.path]
       /\ fdt["user"].pos = arg.fd_pos

\* C9: rename(oldpath, newpath) of two different paths: on success newpath
\* holds what oldpath held (an existing newpath is replaced) and oldpath is
\* gone; on failure an error is returned and the directory is as before.
C9_RenameOverwrites ==
  (Done("rename") /\ arg.oldpath # arg.newpath)
    => IF ret.status = "ok"
       THEN /\ pre[arg.oldpath].exists
            /\ fs[arg.newpath] = pre[arg.oldpath]
            /\ ~fs[arg.oldpath].exists
       ELSE ret.status = "err" /\ fs = pre

\* an existing newpath with other bytes was replaced
C9_Witness ==
  /\ Done("rename") /\ arg.oldpath # arg.newpath /\ ret.status = "ok"
  /\ pre[arg.newpath].exists
  /\ pre[arg.newpath].data # pre[arg.oldpath].data

C11_ZeroCountTouchesNothing ==
  (Done("read_file_part") /\ arg.count = 0)
    => /\ ret.status = "ok"
       /\ ret.data = <<>>
       /\ ev = {}
       /\ fs = pre

C11_Witness ==
  /\ Done("read_file_part")
  /\ arg.count = 0
  /\ ~pre[arg.path].exists
  /\ ret.status = "ok"

\* C12: write_fd writes exactly the size bytes it was given, in order,
\* continuing after partial writes and retrying EINTR and EAGAIN; only a
\* genuine write error aborts it, with a prefix of the data written.  Seen
\* through write_file, whose descriptor starts at an empty file.
C12_WriteFdWritesAllInOrder ==
  (arg.op = "write_file" /\ "open_err" \notin ev)
    => /\ pc = "write_fd"
            => fs[arg.path].data = SubSeq(arg.data, 1, loc.written)
       /\ pc \in {"wf_return", "done"}
            => /\ loc.wres = "ok" => fs[arg.path].data = arg.data
               /\ loc.wres = "err"
                    => /\ "write_err" \in ev
                       /\ fs[arg.path].data = SubSeq(arg.data, 1, loc.written)
               /\ "write_err" \in ev => loc.wres = "err"
       /\ pc = "done" => ret.status = loc.wres

C12_Witness ==
  /\ Done("write_file")
  /\ ret.status = "err"
  /\ "write_err" \in ev
  /\ Len(arg.data) = 2
  /\ loc.written = 1
  /\ fs[arg.path].data = <<arg.data[1]>>

\* C13: in the primitives that loop over read or write calls, a call that
\* fails with EINTR or EAGAIN is retried and never surfaces: an error result
\* comes only from an OS error other than these two.
C13_TransientErrorsNeverSurface ==
  (pc = "done" /\ ret.status = "err"
     /\ arg.op \in {"read_fd", "read_file", "read_file_part", "write_file"})
    => ev \cap {"open_err", "stat_err", "read_err", "write_err"} # {}

\* C14: no descriptor leak.  When copy_file, read_file, read_file_part or
\* write_file has returned, on the success path and on every early-return
\* error path, every descriptor the call opened is closed again: the open
\* descriptors are those of before the call (none).
C14_NoDescriptorLeak ==
  (pc = "done"
     /\ arg.op \in {"copy_file", "read_file", "read_file_part", "write_file"})
    => \A n \in FdNames : fdt[n].st = "closed"

C14_Witness ==
  /\ Done("copy_file")
  /\ arg.via_tmp_file
  /\ ret.status = "err"
  /\ "read_err" \in ev
  /\ loc.tmp_file # ""
  /\ \A n \in FdNames : fdt[n].st = "closed"

\* C15: create_cachedir_tag changes nothing when the tag file exists,
\* whatever its content; otherwise it writes the fixed marker, and a failure
\* of that write is not reported (the call always just returns), leaving no
\* tag or a prefix of the marker.  A second call that finds the tag of the
\* first changes nothing, so twice is as once.
C15_CachedirTag ==
  Done("create_cachedir_tag")
    => /\ ret.status = "ok"
       /\ pre[arg.path].exists => fs = pre /\ ev = {}
       /\ ~pre[arg.path].exists
            => /\ \A p \in Paths \ {arg.path} : fs[p] = pre[p]
               /\ ev = {} => fs[arg.path] = File(cachedir_tag)
               /\ fs[arg.path].exists
                    => IsPrefix(fs[arg.path].data, cachedir_tag)
               /\ ev # {} => fs[arg.path] # File(cachedir_tag)

C15_Witness ==
  /\ Done("create_cachedir_tag")
  /\ prev.op = "create_cachedir_tag"
  /\ prev.path = arg.path
  /\ pre[arg.path] = File(cachedir_tag)
  /\ fs = pre

\* the chunks the receiver got, one after the other
RECURSIVE Flatten(_)
Flatten(chunks) ==
  IF chunks = <<>> THEN <<>> ELSE Head(chunks) \o Flatten(Tail(chunks))

\* C16: read_fd hands the receiver only non-empty chunks of at most
\* CCACHE_READ_BUFFER_SIZE bytes, in the order read, so that what has been
\* delivered is always the bytes from the descriptor's first position up to
\* its present one; success means end-of-file was reached (the chunks make
\* up everything from the first position on); EINTR delivers nothing and is
\* retried; an error result comes from a failed read other than EINTR,
\* after a prefix was delivered.
C16_ReadFdDelivers ==
  arg.op = "read_fd"
    => /\ \A i \in 1..Len(loc.chunks) :
            Len(loc.chunks[i]) \in 1..CCACHE_READ_BUFFER_SIZE
       /\ Flatten(loc.chunks)
            = SubSeq(arg.data, arg.fd_pos + 1, fdt["user"].pos)
       /\ (pc = "done" /\ ret.status = "ok")
            => fdt["user"].pos = Len(arg.data)
       /\ (pc = "done" /\ ret.status = "err")
            <=> ev \cap {"read_err", "read_eagain"} # {}

C16_Witness ==
  /\ Done("read_fd")
  /\ ret.status = "ok"
  /\ Len(arg.data) - arg.fd_pos > CCACHE_READ_BUFFER_SIZE
  /\ Len(loc.chunks) = 2
  /\ Len(loc.chunks[1]) = CCACHE_READ_BUFFER_SIZE
  /\ loc.chunks[1] \o loc.chunks[2] = arg.data

\* C17 (refuted by size_hint = SIZE_MAX, where size_hint + 1 is 0): with reads that fill the requested space unless end-of-file is
\* reached, read_file returns the whole file, of exactly the length read, for
\* every size_hint (0, smaller than, equal to or larger than the file's
\* size): the first buffer is strictly larger than the expected size, it is
\* doubled when it is full before end-of-file, and the result is cut down to
\* the bytes read.
C17_ReadFileAnySizeHint ==
  arg.op = "read_file"
    => /\ pc \in {"rf_open", "rf_read"}
            => /\ Len(loc.result) <= loc.size
               /\ loc.size > (IF arg.size_hint = 0 THEN Len(fs[arg.path].data)
                               ELSE arg.size_hint)
               /\ IsPrefix(loc.result, fs[arg.path].data)
       /\ (pc = "done" /\ ev \cap {"stat_err", "open_err", "read_err",
                                    "short_read"} = {})
            => /\ ret.status = "ok"
               /\ ret.data = fs[arg.path].data
               /\ Len(ret.data) = Len(loc.result)

\* C18: the two starts_with overloads agree for every NUL-terminated string
\* and every prefix (longer than the string, empty, with a NUL inside): both
\* say whether the prefix is a prefix of the string.
C18_StartsWithOverloadsAgree ==
  Done("starts_with")
    => /\ ret.c_str = ret.view
       /\ ret.view = IsPrefix(arg.prefix, arg.string)

\* C19: when the source cannot be opened for reading, copy_file returns an
\* error at once and the file system is as before the call: dest is neither
\* unlinked nor changed and no temporary file is made.
C19_SourceOpenFailureChangesNothing ==
  (arg.op = "copy_file" /\ "open_err" \in ev)
    => /\ pc = "done"
       /\ ret.status = "err"
       /\ fs = pre
       /\ loc.tmp_file = ""

C19_Witness ==
  /\ Done("copy_file")
  /\ "open_err" \in ev
  /\ arg.via_tmp_file
  /\ arg.src # arg.dest
  /\ pre[arg.dest].exists /\ pre[arg.dest].data # <<>>
  /\ fs[arg.dest] = pre[arg.dest]

\* C20: read_file returns the complete file however the OS splits the
\* reads: after short reads and EINTR too, a successful result is the whole
\* file, never a prefix of it.
C20_ReadFileWholeForEverySplit ==
  (Done("read_file") /\ ret.status = "ok")
    => ret.data = fs[arg.path].data

\* C21: write_fd returns in the end, with success or an error, when the
\* descriptor makes progress in the end (only finitely many writes return
\* EINTR, EAGAIN or zero bytes).  The loop has no bound of its own: as long
\* as bytes are left, a write without progress can follow, and it leaves
\* the loop where it was.
C21_WriteFdReturns ==
  /\ (pc = "wr_write") ~> (pc = "done")
  /\ []((pc = "wr_write" /\ loc.written < Len(arg.data)) => ENABLED wr_stall)
  /\ [][wr_stall => (pc' = "wr_write" /\ loc'.written = loc.written
                      /\ fdt' = fdt)]_vars

C21_Witness ==
  /\ Done("write_fd")
  /\ ret.status = "ok"
  /\ Len(arg.data) = MaxLen + 1
  /\ fdt["user"].data = arg.data
  /\ loc.spin

====
